---- MODULE Spec2Model ----
(***************************************************************************)
(* tlog: an append-only task log (src/tlog.py).                            *)
(*                                                                         *)
(* The model has two layers.                                               *)
(*   - The command layer (specification Spec): the event files on disk,    *)
(*     the wall clock, and one action per CLI command.  Every command      *)
(*     reloads the files, replays them and, for a write command, appends   *)
(*     one event.                                                          *)
(*   - The replay layer (specification ReplaySpec): the loop of            *)
(*     compute_state over an in-memory event list, one iteration per       *)
(*     action, followed by a second call on the same list object.          *)
(*                                                                         *)
(* Python lists are objects: compute_state stores the deps/blocks list of  *)
(* a create event in the task it builds, so the task and the event share   *)
(* one list.  The model keeps that sharing: during replay a task's deps    *)
(* and blocks are references (the index of the create event that owns the  *)
(* list) and the lists themselves live in the event sequence.              *)
(***************************************************************************)
EXTENDS Integers, Sequences, FiniteSets, TLC

\* ---------------------------------------------------------------- bounds

\* Number of ids generate_id hands out (ids are 1..MaxTasks).
MaxTasks == 2
\* Number of events the files may hold when only the write commands and
\* ready run (specification LogSpec).
MaxLog == 4
\* Number of events the files may hold when every command runs (Spec).
MaxCli == 2
\* Last second of the wall clock (timestamps are 1..MaxTs).
MaxTs == 2
\* Seconds per calendar day (a day names a partition file).
DayLen == 1
\* Number of --dep and --blocks options on one create command line.
MaxArgs == 1
\* Number of events the files may hold when create takes repeated options
\* (specification RepSpec).
MaxRep == 3
\* Number of --dep and --blocks options on one create command line there.
MaxRepeat == 2
\* Number of events fed to compute_state in the replay layer.
MaxEvents == 3
\* Number of ids in the deps and blocks lists of a create event fed to it.
MaxRefs == 2
\* Number of --dep options on one create command line when the blocked
\* report of prime is looked at (specification PrimeSpec).
MaxDeps == 4
\* Number of events the files may hold there.
MaxPrime == 3
\* Number of processes that run commands on one log at a time
\* (specification ConcSpec).
MaxProcs == 2
\* Number of events the files may hold there.
MaxConc == 3
\* Number of lines of a log that was not written by the commands alone
\* (specification LoadSpec); its timestamps are 1..MaxLines.
MaxLines == 3

\* ------------------------------------------------------------- constants

EVENT_CREATE == "create"
EVENT_STATUS == "status"
EVENT_DEP == "dep"
EVENT_BLOCK == "block"
EVENT_UPDATE == "update"

\* t.get("completed") of a task that was never done (the key is absent).
NoTs == 0

TaskIds == 1 .. MaxTasks
Times == 1 .. MaxTs
Days == 1 .. ((MaxTs + DayLen - 1) \div DayLen)

VARIABLES
  initialized,  \* the .tlog directory exists
  files,        \* day -> the lines of events/<day>.jsonl
  now,          \* the wall clock, in seconds
  out,          \* the document the last command emitted
  input,        \* replay layer: the event list as it was handed to compute_state
  evs,          \* replay layer: that list object now (its lists may have changed)
  tasks,        \* replay layer: the dict compute_state is building
  order,        \* replay layer: the insertion order of that dict's keys
  rpc,          \* replay layer: "loop" (first call running) or "again"
  res1,         \* replay layer: the task map the first call returned
  res2,         \* replay layer: the task map the second call returned
  pend          \* writers: process -> the event it validated and has yet to append

cmdVars == <<initialized, files, now, out>>
replayVars == <<input, evs, tasks, order, rpc, res1, res2, pend>>
vars == <<initialized, files, now, out, input, evs, tasks, order, rpc, res1, res2, pend>>

\* ------------------------------------------------------- sequence helpers

\* dict.get(key, default)
Get(e, k, d) == IF k \in DOMAIN e THEN e[k] ELSE d

\* x in list
Has(s, x) == \E i \in 1 .. Len(s) : s[i] = x

\* list.remove(x): drops the first occurrence of x (x is known to be in s)
RemoveFirst(s, x) ==
  LET i == CHOOSE j \in 1 .. Len(s) : s[j] = x /\ \A k \in 1 .. (j - 1) : s[k] # x
  IN  SubSeq(s, 1, i - 1) \o SubSeq(s, i + 1, Len(s))

\* all sequences over S of length at most n
SeqsUpTo(S, n) == UNION {[1 .. k -> S] : k \in 0 .. n}

\* An insertion that puts x before the values of equal key: a sort that
\* turns ties around.
RECURSIVE InsertByKey_BeforeEqual(_, _, _)
InsertByKey_BeforeEqual(sorted, x, kx) ==
  IF sorted = <<>> THEN <<<<kx, x>>>>
  ELSE IF sorted[Len(sorted)][1] < kx THEN Append(sorted, <<kx, x>>)
  ELSE Append(InsertByKey_BeforeEqual(SubSeq(sorted, 1, Len(sorted) - 1), x, kx),
              sorted[Len(sorted)])

\* sorted(s, key): a stable sort, by insertion from the left
RECURSIVE InsertByKey(_, _, _)
InsertByKey(sorted, x, kx) ==
  \* sorted is a sequence of <<key, value>>; x goes after every key <= kx
  IF sorted = <<>> THEN <<<<kx, x>>>>
  ELSE IF sorted[Len(sorted)][1] <= kx THEN Append(sorted, <<kx, x>>)
  ELSE Append(InsertByKey(SubSeq(sorted, 1, Len(sorted) - 1), x, kx), sorted[Len(sorted)])

RECURSIVE SortPairs(_)
SortPairs(pairs) ==
  IF pairs = <<>> THEN <<>>
  ELSE InsertByKey(SortPairs(SubSeq(pairs, 1, Len(pairs) - 1)),
                   pairs[Len(pairs)][2], pairs[Len(pairs)][1])

\* ------------------------------------------------------------ event store

DayOf(ts) == ((ts - 1) \div DayLen) + 1

\* An append that opens the file for writing, not for appending: the line
\* replaces what the file of the day held.
append_event_Truncating(fs, day, event) == [fs EXCEPT ![day] = <<event>>]

\* append_event: one line at the end of the file of the current day
append_event(fs, day, event) == [fs EXCEPT ![day] = Append(@, event)]

RECURSIVE ReadFiles(_, _)
ReadFiles(fs, d) ==
  \* the files in name order, each line by line
  IF d \notin Days THEN <<>> ELSE fs[d] \o ReadFiles(fs, d + 1)

\* A line of a file is the record json.dumps wrote for an event, or text
\* that is no such record: [raw |-> text].
IsText(line) == "raw" \in DOMAIN line
\* "if line": a line that is blank after strip()
Blank(line) == IsText(line) /\ line.raw = ""
\* json.loads raises JSONDecodeError: text that is not JSON (a record cut
\* short by a partial write)
JSONDecodeError(line) == IsText(line) /\ line.raw = "{partial"
\* json.loads returns a dict
IsMapping(line) == ~IsText(line)

\* the events list before the sort: what json.loads returned, line by line
Parsed(fs) ==
  LET Kept(line) == ~Blank(line) /\ ~JSONDecodeError(line)
  IN  SelectSeq(ReadFiles(fs, 1), Kept)

\* the key function of the sort calls e.get on every element: a parsed value
\* that is no dict (42, null) raises AttributeError
SortRaises(fs) == \E i \in 1 .. Len(Parsed(fs)) : ~IsMapping(Parsed(fs)[i])

\* A load that returns the lines as they lie in the files.
load_all_events_Unsorted(fs) == Parsed(fs)

\* A load that reads the newest partition file only.
load_all_events_LastFile(fs) ==
  LET used == {d \in Days : fs[d] # <<>>}
      last == IF used = {} THEN 1 ELSE CHOOSE d \in used : \A o \in used : o <= d
      lines == Parsed([d \in Days |-> IF d = last THEN fs[d] ELSE <<>>])
      sorted == SortPairs([i \in 1 .. Len(lines) |-> <<Get(lines[i], "ts", NoTs), lines[i]>>])
  IN  [i \in 1 .. Len(sorted) |-> sorted[i][2]]

\* load_all_events: every parsed line of every file, sorted by ts (stable);
\* the value returned when the sort does not raise
load_all_events(fs) ==
  LET lines == Parsed(fs)
      sorted == SortPairs([i \in 1 .. Len(lines) |-> <<Get(lines[i], "ts", NoTs), lines[i]>>])
  IN  [i \in 1 .. Len(sorted) |-> sorted[i][2]]

AllLines(fs) == ReadFiles(fs, 1)

\* ----------------------------------------------------------------- replay

\* The state of the loop of compute_state: the dict being built (t), the
\* insertion order of its keys (o) and the event list (e), whose create
\* events own the deps/blocks lists the tasks refer to.
EmptyReplay(events) == [t |-> <<>>, o |-> <<>>, e |-> events]

\* tasks[task_id] = {...}: a new key goes last, an old key keeps its place
PutTask(S, id, task) ==
  [S EXCEPT !.t = [k \in (DOMAIN S.t) \cup {id} |-> IF k = id THEN task ELSE S.t[k]],
            !.o = IF id \in DOMAIN S.t THEN S.o ELSE Append(S.o, id)]

\* A create branch that updates the task there is instead of replacing it:
\* the completed timestamp of the earlier task stays.
ApplyCreate_Merge(S, i) ==
  LET event == S.e[i]
  IN  PutTask(S, event.id,
        [id |-> event.id,
         title |-> Get(event, "title", ""),
         status |-> Get(event, "status", "open"),
         deps |-> i,
         blocks |-> i,
         created |-> event.ts,
         updated |-> event.ts,
         completed |-> IF event.id \in DOMAIN S.t THEN S.t[event.id].completed ELSE NoTs,
         labels |-> Get(event, "labels", <<>>),
         notes |-> Get(event, "notes", "")])

ApplyCreate(S, i) ==
  LET event == S.e[i]
  IN  PutTask(S, event.id,
        [id |-> event.id,
         title |-> Get(event, "title", ""),
         status |-> Get(event, "status", "open"),
         deps |-> i,
         blocks |-> i,
         created |-> event.ts,
         updated |-> event.ts,
         completed |-> NoTs,
         labels |-> Get(event, "labels", <<>>),
         notes |-> Get(event, "notes", "")])

\* A replay that forgets the completion when a task is reopened.
ApplyStatus_ClearOnReopen(S, i) ==
  LET event == S.e[i]
      id == event.id
  IN  [S EXCEPT !.t[id].status = event.status,
                !.t[id].updated = event.ts,
                !.t[id].completed = IF event.status = "done" THEN event.ts ELSE NoTs]

ApplyStatus(S, i) ==
  LET event == S.e[i]
      id == event.id
  IN  [S EXCEPT !.t[id].status = event.status,
                !.t[id].updated = event.ts,
                !.t[id].completed = IF event.status = "done" THEN event.ts ELSE @]

\* A replay whose dep add appends without looking for the id in the list.
ApplyDep_AlwaysAppend(S, i) ==
  LET event == S.e[i]
      id == event.id
      dep_id == event.dep
      action == Get(event, "action", "add")
      ref == S.t[id].deps
      deps == S.e[ref].deps
      deps2 == IF action = "add" THEN Append(deps, dep_id)
               ELSE IF action = "remove" /\ Has(deps, dep_id) THEN RemoveFirst(deps, dep_id)
               ELSE deps
  IN  [S EXCEPT !.e[ref].deps = deps2, !.t[id].updated = event.ts]

ApplyDep(S, i) ==
  LET event == S.e[i]
      id == event.id
      dep_id == event.dep
      action == Get(event, "action", "add")
      ref == S.t[id].deps
      deps == S.e[ref].deps
      deps2 == IF action = "add" /\ ~Has(deps, dep_id) THEN Append(deps, dep_id)
               ELSE IF action = "remove" /\ Has(deps, dep_id) THEN RemoveFirst(deps, dep_id)
               ELSE deps
  IN  [S EXCEPT !.e[ref].deps = deps2, !.t[id].updated = event.ts]

ApplyBlock(S, i) ==
  LET event == S.e[i]
      id == event.id
      block_id == event.blocks
      action == Get(event, "action", "add")
      ref == S.t[id].blocks
      blocks == S.e[ref].blocks
      blocks2 == IF action = "add" /\ ~Has(blocks, block_id) THEN Append(blocks, block_id)
                 ELSE IF action = "remove" /\ Has(blocks, block_id)
                      THEN RemoveFirst(blocks, block_id)
                 ELSE blocks
  IN  [S EXCEPT !.e[ref].blocks = blocks2, !.t[id].updated = event.ts]

ApplyUpdate(S, i) ==
  LET event == S.e[i]
      id == event.id
  IN  [S EXCEPT !.t[id].title = Get(event, "title", @),
                !.t[id].notes = Get(event, "notes", @),
                !.t[id].labels = Get(event, "labels", @),
                !.t[id].updated = event.ts]

\* A replay that makes a stub task for a status event on an id it does not
\* know, instead of dropping the event.
ApplyEvent_Upsert(S, i) ==
  LET event == S.e[i]
      known == event.id \in DOMAIN S.t
      stub == [id |-> event.id, title |-> "", status |-> event.status,
               deps |-> i, blocks |-> i, created |-> event.ts, updated |-> event.ts,
               completed |-> IF event.status = "done" THEN event.ts ELSE NoTs,
               labels |-> <<>>, notes |-> ""]
  IN  IF event.type = EVENT_CREATE THEN ApplyCreate(S, i)
      ELSE IF event.type = EVENT_STATUS /\ known THEN ApplyStatus(S, i)
      ELSE IF event.type = EVENT_STATUS
           THEN PutTask([S EXCEPT !.e[i] = event @@ [deps |-> <<>>, blocks |-> <<>>]],
                        event.id, stub)
      ELSE IF event.type = EVENT_DEP /\ known THEN ApplyDep(S, i)
      ELSE IF event.type = EVENT_BLOCK /\ known THEN ApplyBlock(S, i)
      ELSE IF event.type = EVENT_UPDATE /\ known THEN ApplyUpdate(S, i)
      ELSE S

\* one iteration of "for event in events" (the if / elif chain)
ApplyEvent(S, i) ==
  LET event == S.e[i]
      known == event.id \in DOMAIN S.t
  IN  IF event.type = EVENT_CREATE THEN ApplyCreate(S, i)
      ELSE IF event.type = EVENT_STATUS /\ known THEN ApplyStatus(S, i)
      ELSE IF event.type = EVENT_DEP /\ known THEN ApplyDep(S, i)
      ELSE IF event.type = EVENT_BLOCK /\ known THEN ApplyBlock(S, i)
      ELSE IF event.type = EVENT_UPDATE /\ known THEN ApplyUpdate(S, i)
      ELSE S

RECURSIVE ReplayFrom(_, _)
ReplayFrom(S, i) ==
  IF i > Len(S.e) THEN S ELSE ReplayFrom(ApplyEvent(S, i), i + 1)

\* The task map as a reader sees it: every deps/blocks reference followed
\* into the event list e.
Deref(t, e) ==
  [k \in DOMAIN t |-> [t[k] EXCEPT !.deps = e[t[k].deps].deps,
                                   !.blocks = e[t[k].blocks].blocks]]

\* compute_state(events): the dict it returns and the order of its keys.
\* Every caller of the command layer passes a list load_all_events has just
\* built, which nothing else refers to.
compute_state(events) ==
  LET S == ReplayFrom(EmptyReplay(events), 1)
  IN  [tasks |-> Deref(S.t, S.e), order |-> S.o]

\* --------------------------------------------------------- graph analysis

\* A gate that asks only that every dep exists, done or not.
deps_satisfied_AnyStatus(ts, task) ==
  \A i \in 1 .. Len(task.deps) : task.deps[i] \in DOMAIN ts

\* the inner loops of get_ready_tasks
deps_satisfied(ts, task) ==
  \A i \in 1 .. Len(task.deps) :
     task.deps[i] \in DOMAIN ts /\ ts[task.deps[i]].status = "done"

blocked(ts, task) ==
  \E k \in DOMAIN ts : Has(ts[k].blocks, task.id) /\ ts[k].status # "done"

IsReady(ts, task) ==
  task.status = "open" /\ deps_satisfied(ts, task) /\ ~blocked(ts, task)

RECURSIVE ReadyIn(_, _)
ReadyIn(ts, o) ==
  IF o = <<>> THEN <<>>
  ELSE (IF IsReady(ts, ts[Head(o)]) THEN <<ts[Head(o)]>> ELSE <<>>) \o ReadyIn(ts, Tail(o))

\* get_ready_tasks(tasks): the ready tasks in dict order
get_ready_tasks(st) == ReadyIn(st.tasks, st.order)

\* ------------------------------------------------------------ command layer

\* tasks.values(): the tasks in dict order
Values(st) == [i \in 1 .. Len(st.order) |-> st.tasks[st.order[i]]]

\* s[:n]
Take(s, n) == SubSeq(s, 1, IF Len(s) < n THEN Len(s) ELSE n)

\* list.sort(key=created): stable, oldest first
SortByCreated(ts) ==
  LET sorted == SortPairs([i \in 1 .. Len(ts) |-> <<ts[i].created, ts[i]>>])
  IN  [i \in 1 .. Len(sorted) |-> sorted[i][2]]

\* list.sort(key=created, reverse=True): stable, newest first
SortByCreatedDesc(ts) ==
  LET sorted == SortPairs([i \in 1 .. Len(ts) |-> <<0 - ts[i].created, ts[i]>>])
  IN  [i \in 1 .. Len(sorted) |-> sorted[i][2]]

\* list.sort(key=completed, reverse=True): stable, last completed first
SortByCompletedDesc(ts) ==
  LET sorted == SortPairs([i \in 1 .. Len(ts) |-> <<0 - ts[i].completed, ts[i]>>])
  IN  [i \in 1 .. Len(sorted) |-> sorted[i][2]]

\* load_all_events followed by compute_state, as every command but create does
Loaded == compute_state(load_all_events(files))

\* generate_id: an id no task has (a collision of the random hash is not modelled)
generate_id ==
  Cardinality({i \in 1 .. Len(AllLines(files)) : AllLines(files)[i].type = EVENT_CREATE}) + 1

\* out before any command has run
NoOutput == [cmd |-> "", args |-> <<>>, error |-> "", doc |-> <<>>]

\* error_json: the error document goes out and the process exits; nothing is appended
error_json(cmd, args, kind) ==
  /\ out' = [cmd |-> cmd, args |-> args, error |-> kind, doc |-> <<>>]
  /\ UNCHANGED <<initialized, files, now>>

\* output_json of a read command
output_json(cmd, args, doc) ==
  /\ out' = [cmd |-> cmd, args |-> args, error |-> "", doc |-> doc]
  /\ UNCHANGED <<initialized, files, now>>

\* append_event followed by output_json: the tail of every write command
AppendAndReport(cmd, args, event, doc) ==
  /\ files' = append_event(files, DayOf(now), event)
  /\ out' = [cmd |-> cmd, args |-> args, error |-> "", doc |-> doc]
  /\ UNCHANGED <<initialized, now>>

\* The ids a user can type: those generate_id hands out (made already or not
\* yet), and one it never hands out.
NoSuchId == MaxTasks + 1
ArgIds == TaskIds
AnyId == TaskIds \cup {NoSuchId}
ArgTitles == {"", "u"}
ArgNotes == {"", "n"}
ArgLabels == {<<>>, <<"l">>}

\* The --dep and --blocks lists of a create command line with at most n such
\* options.  The new task's own id is not known before the command runs, so
\* an option names a task there is or an id there is none for.
CreateArgs(n) ==
  LET ids == (DOMAIN Loaded.tasks) \cup {NoSuchId}
      lists == SeqsUpTo(ids, n)
  IN  {a \in lists \X lists : Len(a[1]) + Len(a[2]) <= n}

cmd_init ==
  /\ IF initialized THEN error_json("init", <<>>, "already_initialized")
     ELSE /\ initialized' = TRUE
          /\ out' = [cmd |-> "init", args |-> <<>>, error |-> "",
                      doc |-> [status |-> "initialized"]]
          /\ UNCHANGED <<files, now>>
  /\ UNCHANGED replayVars

cmd_create(title, dep, blocks, label, notes) ==
  /\ IF ~initialized
     THEN error_json("create", [dep |-> dep, blocks |-> blocks], "not_initialized")
     ELSE LET task_id == generate_id
              ts == now
              base == [id |-> task_id, ts |-> ts, type |-> EVENT_CREATE, title |-> title,
                       status |-> "open", deps |-> dep, blocks |-> blocks]
              withLabels == IF label # <<>> THEN base @@ [labels |-> label] ELSE base
              event == IF notes # "" THEN withLabels @@ [notes |-> notes] ELSE withLabels
          IN  /\ task_id \in TaskIds
              /\ AppendAndReport("create", [dep |-> dep, blocks |-> blocks], event,
                   [id |-> task_id, title |-> title, status |-> "open",
                    deps |-> event.deps, blocks |-> event.blocks, created |-> ts])
  /\ UNCHANGED replayVars

cmd_done(id) ==
  /\ LET args == [id |-> id]
     IN  IF ~initialized THEN error_json("done", args, "not_initialized")
         ELSE IF id \notin DOMAIN Loaded.tasks THEN error_json("done", args, "not_found")
         ELSE AppendAndReport("done", args,
                [id |-> id, ts |-> now, type |-> EVENT_STATUS, status |-> "done"],
                [id |-> id, status |-> "done", completed |-> now])
  /\ UNCHANGED replayVars

cmd_reopen(id) ==
  /\ LET args == [id |-> id]
     IN  IF ~initialized THEN error_json("reopen", args, "not_initialized")
         ELSE IF id \notin DOMAIN Loaded.tasks THEN error_json("reopen", args, "not_found")
         ELSE AppendAndReport("reopen", args,
                [id |-> id, ts |-> now, type |-> EVENT_STATUS, status |-> "open"],
                [id |-> id, status |-> "open", reopened |-> now])
  /\ UNCHANGED replayVars

\* A dep command that checks the subject id only, not the --on id.
cmd_dep_OnUnchecked(id, on, remove) ==
  /\ LET args == [id |-> id, on |-> on, remove |-> remove]
         action == IF remove THEN "remove" ELSE "add"
     IN  IF ~initialized THEN error_json("dep", args, "not_initialized")
         ELSE IF id \notin DOMAIN Loaded.tasks THEN error_json("dep", args, "not_found")
         ELSE AppendAndReport("dep", args,
                [id |-> id, ts |-> now, type |-> EVENT_DEP, dep |-> on, action |-> action],
                [id |-> id, dependency |-> on, action |-> action, updated |-> now])
  /\ UNCHANGED replayVars

cmd_dep(id, on, remove) ==
  /\ LET args == [id |-> id, on |-> on, remove |-> remove]
         action == IF remove THEN "remove" ELSE "add"
     IN  IF ~initialized THEN error_json("dep", args, "not_initialized")
         ELSE IF id \notin DOMAIN Loaded.tasks THEN error_json("dep", args, "not_found")
         ELSE IF on \notin DOMAIN Loaded.tasks THEN error_json("dep", args, "not_found")
         ELSE AppendAndReport("dep", args,
                [id |-> id, ts |-> now, type |-> EVENT_DEP, dep |-> on, action |-> action],
                [id |-> id, dependency |-> on, action |-> action, updated |-> now])
  /\ UNCHANGED replayVars

cmd_block(id, blocks, remove) ==
  /\ LET args == [id |-> id, blocks |-> blocks, remove |-> remove]
         action == IF remove THEN "remove" ELSE "add"
     IN  IF ~initialized THEN error_json("block", args, "not_initialized")
         ELSE IF id \notin DOMAIN Loaded.tasks THEN error_json("block", args, "not_found")
         ELSE IF blocks \notin DOMAIN Loaded.tasks THEN error_json("block", args, "not_found")
         ELSE AppendAndReport("block", args,
                [id |-> id, ts |-> now, type |-> EVENT_BLOCK, blocks |-> blocks,
                 action |-> action],
                [id |-> id, blocks |-> blocks, action |-> action, updated |-> now])
  /\ UNCHANGED replayVars

\* An update command that appends its event before it looks whether the
\* event carries a change.
cmd_update_AppendFirst(id, title, notes, label) ==
  /\ LET args == [id |-> id, title |-> title, notes |-> notes, label |-> label]
         base == [id |-> id, ts |-> now, type |-> EVENT_UPDATE]
         withTitle == IF title # "" THEN base @@ [title |-> title] ELSE base
         withNotes == IF notes # "" THEN withTitle @@ [notes |-> notes] ELSE withTitle
         event == IF label # <<>> THEN withNotes @@ [labels |-> label] ELSE withNotes
     IN  IF ~initialized THEN error_json("update", args, "not_initialized")
         ELSE IF id \notin DOMAIN Loaded.tasks THEN error_json("update", args, "not_found")
         ELSE IF Cardinality(DOMAIN event) <= 3
              THEN /\ files' = append_event(files, DayOf(now), event)
                   /\ out' = [cmd |-> "update", args |-> args, error |-> "no_changes",
                              doc |-> <<>>]
                   /\ UNCHANGED <<initialized, now>>
         ELSE AppendAndReport("update", args, event,
                [id |-> id, updated |-> now,
                 changes |-> [k \in (DOMAIN event) \ {"id", "ts", "type"} |-> event[k]]])
  /\ UNCHANGED replayVars

cmd_update(id, title, notes, label) ==
  /\ LET args == [id |-> id, title |-> title, notes |-> notes, label |-> label]
         base == [id |-> id, ts |-> now, type |-> EVENT_UPDATE]
         withTitle == IF title # "" THEN base @@ [title |-> title] ELSE base
         withNotes == IF notes # "" THEN withTitle @@ [notes |-> notes] ELSE withTitle
         event == IF label # <<>> THEN withNotes @@ [labels |-> label] ELSE withNotes
     IN  IF ~initialized THEN error_json("update", args, "not_initialized")
         ELSE IF id \notin DOMAIN Loaded.tasks THEN error_json("update", args, "not_found")
         ELSE IF Cardinality(DOMAIN event) <= 3 THEN error_json("update", args, "no_changes")
         ELSE AppendAndReport("update", args, event,
                [id |-> id, updated |-> now,
                 changes |-> [k \in (DOMAIN event) \ {"id", "ts", "type"} |-> event[k]]])
  /\ UNCHANGED replayVars

cmd_list(status) ==
  /\ IF ~initialized THEN error_json("list", [status |-> status], "not_initialized")
     ELSE LET st == Loaded
              Keep(task) == ~(status # "all" /\ task.status # status)
              result == SortByCreatedDesc(SelectSeq(Values(st), Keep))
          IN  output_json("list", [status |-> status], [tasks |-> result, count |-> Len(result)])
  /\ UNCHANGED replayVars

cmd_show(id) ==
  /\ IF ~initialized THEN error_json("show", [id |-> id], "not_initialized")
     ELSE IF id \notin DOMAIN Loaded.tasks THEN error_json("show", [id |-> id], "not_found")
     ELSE LET st == Loaded
              task == st.tasks[id]
              Exists(d) == d \in DOMAIN st.tasks
              found == SelectSeq(task.deps, Exists)
              deps_status == [i \in 1 .. Len(found) |->
                                [id |-> found[i], title |-> st.tasks[found[i]].title,
                                 status |-> st.tasks[found[i]].status]]
              Blocks(other) == Has(other.blocks, task.id) /\ other.status # "done"
              blockers == SelectSeq(Values(st), Blocks)
              blocked_by == [i \in 1 .. Len(blockers) |->
                               [id |-> blockers[i].id, title |-> blockers[i].title]]
          IN  output_json("show", [id |-> id], [task |-> task, deps_status |-> deps_status,
                                   blocked_by |-> blocked_by])
  /\ UNCHANGED replayVars

cmd_ready ==
  /\ IF ~initialized THEN error_json("ready", <<>>, "not_initialized")
     ELSE LET ready == SortByCreated(get_ready_tasks(Loaded))
          IN  output_json("ready", <<>>, [tasks |-> ready, count |-> Len(ready)])
  /\ UNCHANGED replayVars

\* the edges build_dependency_graph adds for one task
TaskEdges(task) ==
  [i \in 1 .. Len(task.deps) |-> [from |-> task.deps[i], to |-> task.id, type |-> "depends_on"]]
  \o [i \in 1 .. Len(task.blocks) |-> [from |-> task.id, to |-> task.blocks[i], type |-> "blocks"]]

RECURSIVE AllEdges(_)
AllEdges(ts) == IF ts = <<>> THEN <<>> ELSE TaskEdges(Head(ts)) \o AllEdges(Tail(ts))

\* build_dependency_graph over the given tasks, in dict order
build_dependency_graph(ts) ==
  [nodes |-> [i \in 1 .. Len(ts) |-> [id |-> ts[i].id, title |-> ts[i].title, status |-> ts[i].status]],
   edges |-> AllEdges(ts)]

cmd_graph(all) ==
  /\ IF ~initialized THEN error_json("graph", [all |-> all], "not_initialized")
     ELSE LET IsOpen(task) == task.status = "open"
              shown == IF all THEN Values(Loaded) ELSE SelectSeq(Values(Loaded), IsOpen)
          IN  output_json("graph", [all |-> all], build_dependency_graph(shown))
  /\ UNCHANGED replayVars

\* the numbers of cmd_prime
PrimeReady == 10
PrimeDone == 5
PrimeWaiting == 3
PrimeBlocked == 5

\* [d for d in task["deps"] if tasks.get(d, {}).get("status") != "done"]
deps_pending(ts, task) ==
  LET Pending(d) == ~(d \in DOMAIN ts /\ ts[d].status = "done")
  IN  SelectSeq(task.deps, Pending)

\* the blocked_tasks list of cmd_prime
blocked_tasks(st) ==
  LET IsOpen(task) == task.status = "open"
      open_tasks == SelectSeq(Values(st), IsOpen)
      IsBlocked(task) == deps_pending(st.tasks, task) # <<>>
      hit == SelectSeq(open_tasks, IsBlocked)
  IN  Take([i \in 1 .. Len(hit) |->
              [id |-> hit[i].id, title |-> hit[i].title,
               waiting_on |-> Take(deps_pending(st.tasks, hit[i]), PrimeWaiting)]],
           PrimeBlocked)

cmd_prime ==
  /\ IF ~initialized THEN error_json("prime", <<>>, "not_initialized")
     ELSE LET st == Loaded
              ready == get_ready_tasks(st)
              IsOpen(task) == task.status = "open"
              IsDone(task) == task.status = "done"
              open_tasks == SelectSeq(Values(st), IsOpen)
              done_recent == Take(SortByCompletedDesc(SelectSeq(Values(st), IsDone)), PrimeDone)
              shown == Take(ready, PrimeReady)
          IN  output_json("prime", <<>>,
                [summary |-> [total_open |-> Len(open_tasks),
                              total_done |-> Len(SelectSeq(Values(st), IsDone)),
                              ready_count |-> Len(ready)],
                 ready_tasks |-> [i \in 1 .. Len(shown) |->
                                    [id |-> shown[i].id, title |-> shown[i].title]],
                 recent_completed |-> [i \in 1 .. Len(done_recent) |->
                                    [id |-> done_recent[i].id, title |-> done_recent[i].title,
                                     completed |-> done_recent[i].completed]],
                 blocked_tasks |-> blocked_tasks(st)])
  /\ UNCHANGED replayVars

\* the wall clock moves on between two commands
Tick ==
  /\ now < MaxTs
  /\ now' = now + 1
  /\ UNCHANGED <<initialized, files, out>>
  /\ UNCHANGED replayVars

\* The replay layer is idle in the command layer.
ReplayIdle ==
  /\ input = <<>>
  /\ evs = <<>>
  /\ tasks = <<>>
  /\ order = <<>>
  /\ rpc = "idle"
  /\ res1 = <<>>
  /\ res2 = <<>>
  /\ pend = <<>>

Init ==
  /\ initialized = FALSE
  /\ files = [d \in Days |-> <<>>]
  /\ now = 1
  /\ out = NoOutput
  /\ ReplayIdle

\* the bound of a run: the files hold at most n events
Fits(n) == Len(AllLines(files')) <= n

\* Every command of the CLI (sync only runs git and is left out), with the
\* clock running.
Next ==
  \/ cmd_init
  \/ \E a \in CreateArgs(MaxArgs) : cmd_create("t", a[1], a[2], <<>>, "") /\ Fits(MaxCli)
  \/ \E id \in AnyId : cmd_done(id) /\ Fits(MaxCli)
  \/ \E id \in AnyId : cmd_reopen(id) /\ Fits(MaxCli)
  \/ \E id \in AnyId, on \in AnyId, remove \in BOOLEAN :
        cmd_dep(id, on, remove) /\ Fits(MaxCli)
  \/ \E id \in AnyId, blocks \in AnyId, remove \in BOOLEAN :
        cmd_block(id, blocks, remove) /\ Fits(MaxCli)
  \/ \E id \in AnyId, title \in ArgTitles : cmd_update(id, title, "", <<>>) /\ Fits(MaxCli)
  \/ \E status \in {"open", "done", "all"} : cmd_list(status)
  \/ \E id \in AnyId : cmd_show(id)
  \/ cmd_ready
  \/ \E all \in BOOLEAN : cmd_graph(all)
  \/ cmd_prime
  \/ Tick

Spec == Init /\ [][Next]_vars

\* The write commands and ready, all run within one second: the log grows
\* longer here, and every pair of events ties on ts, so that the replay
\* order rests on the stable sort of load_all_events alone.
LogNext ==
  \/ cmd_init
  \/ \E a \in CreateArgs(MaxArgs) : cmd_create("t", a[1], a[2], <<>>, "") /\ Fits(MaxLog)
  \/ \E id \in ArgIds : cmd_done(id) /\ Fits(MaxLog)
  \/ \E id \in ArgIds : cmd_reopen(id) /\ Fits(MaxLog)
  \/ \E id \in ArgIds, on \in ArgIds, remove \in BOOLEAN :
        cmd_dep(id, on, remove) /\ Fits(MaxLog)
  \/ \E id \in ArgIds, blocks \in ArgIds, remove \in BOOLEAN :
        cmd_block(id, blocks, remove) /\ Fits(MaxLog)
  \/ \E id \in ArgIds : cmd_update(id, "u", "", <<>>) /\ Fits(MaxLog)
  \/ cmd_ready

LogSpec == Init /\ [][LogNext]_vars

\* The same commands with create given up to MaxRepeat options, an id
\* possibly twice (create t --blocks x --blocks x), and with dep and block
\* possibly naming an id there is no task for.
RepNext ==
  \/ cmd_init
  \/ \E a \in CreateArgs(MaxRepeat) : cmd_create("t", a[1], a[2], <<>>, "") /\ Fits(MaxRep)
  \/ \E id \in ArgIds : cmd_done(id) /\ Fits(MaxRep)
  \/ \E id \in ArgIds : cmd_reopen(id) /\ Fits(MaxRep)
  \/ \E id \in ArgIds, on \in AnyId, remove \in BOOLEAN :
        cmd_dep(id, on, remove) /\ Fits(MaxRep)
  \/ \E id \in ArgIds, blocks \in AnyId, remove \in BOOLEAN :
        cmd_block(id, blocks, remove) /\ Fits(MaxRep)
  \/ \E id \in ArgIds : cmd_update(id, "u", "", <<>>) /\ Fits(MaxRep)
  \/ cmd_ready

RepSpec == Init /\ [][RepNext]_vars

\* The commands that feed the blocked report of prime: create with up to
\* MaxDeps --dep options naming different ids (tasks there are none for, or
\* one task there is), done, dep, and prime.
PrimeDeps ==
  {[i \in 1 .. k |-> MaxTasks + i] : k \in 0 .. MaxDeps}
    \cup {<<t>> : t \in DOMAIN Loaded.tasks}

PrimeNext ==
  \/ cmd_init
  \/ \E dep \in PrimeDeps : cmd_create("t", dep, <<>>, <<>>, "") /\ Fits(MaxPrime)
  \/ \E id \in ArgIds : cmd_done(id) /\ Fits(MaxPrime)
  \/ \E id \in ArgIds, on \in ArgIds, remove \in BOOLEAN :
        cmd_dep(id, on, remove) /\ Fits(MaxPrime)
  \/ cmd_prime

PrimeSpec == Init /\ [][PrimeNext]_vars

\* --------------------------------------------------- concurrent writers

\* Several processes run commands on one log.  A command loads the log and
\* validates (one step), then stamps its event with its own clock and
\* appends it as one whole line (a later step); other processes' steps may
\* lie in between.  A writer's clock may be ahead of or behind the others'.
Procs == 1 .. MaxProcs
NoPending == <<>>

\* ids of create events in the files or validated and yet to be appended
\* (the random ids of generate_id do not collide)
TakenIds ==
  {AllLines(files)[i].id : i \in {j \in 1 .. Len(AllLines(files)) :
                                    AllLines(files)[j].type = EVENT_CREATE}}
    \cup {pend[q].event.id : q \in {r \in Procs : pend[r] # NoPending /\
                                                   pend[r].event.type = EVENT_CREATE}}

\* cmd_create up to ts = now_iso(): no load, no validation
BeginCreate(p, ts) ==
  /\ pend[p] = NoPending
  /\ TaskIds \ TakenIds # {}
  /\ LET task_id == CHOOSE id \in TaskIds \ TakenIds : \A o \in TaskIds \ TakenIds : id <= o
     IN  pend' = [pend EXCEPT ![p] =
                    [cmd |-> "create", seen |-> Len(AllLines(files)),
                     event |-> [id |-> task_id, ts |-> ts, type |-> EVENT_CREATE,
                                title |-> "t", status |-> "open",
                                deps |-> <<>>, blocks |-> <<>>]]]
  /\ UNCHANGED <<initialized, files, now, out>>
  /\ UNCHANGED <<input, evs, tasks, order, rpc, res1, res2>>

\* cmd_done / cmd_reopen up to ts = now_iso(): load, replay, existence check
BeginStatus(p, cmd, id, ts) ==
  /\ pend[p] = NoPending
  /\ IF id \notin DOMAIN Loaded.tasks
     THEN /\ error_json(cmd, [id |-> id], "not_found")
          /\ UNCHANGED pend
     ELSE /\ pend' = [pend EXCEPT ![p] =
                        [cmd |-> cmd, seen |-> Len(AllLines(files)),
                         event |-> [id |-> id, ts |-> ts, type |-> EVENT_STATUS,
                                    status |-> IF cmd = "done" THEN "done" ELSE "open"]]]
          /\ UNCHANGED <<initialized, files, now, out>>
  /\ UNCHANGED <<input, evs, tasks, order, rpc, res1, res2>>

\* append_event and output_json: the rest of the command
Commit(p) ==
  /\ pend[p] # NoPending
  /\ files' = append_event(files, DayOf(pend[p].event.ts), pend[p].event)
  /\ out' = [cmd |-> pend[p].cmd, args |-> [id |-> pend[p].event.id], error |-> "",
             doc |-> [id |-> pend[p].event.id, status |-> pend[p].event.status]]
  /\ pend' = [pend EXCEPT ![p] = NoPending]
  /\ UNCHANGED <<initialized, now>>
  /\ UNCHANGED <<input, evs, tasks, order, rpc, res1, res2>>

ConcInit ==
  /\ initialized = TRUE
  /\ files = [d \in Days |-> <<>>]
  /\ now = 1
  /\ out = NoOutput
  /\ input = <<>>
  /\ evs = <<>>
  /\ tasks = <<>>
  /\ order = <<>>
  /\ rpc = "idle"
  /\ res1 = <<>>
  /\ res2 = <<>>
  /\ pend = [p \in Procs |-> NoPending]

ConcNext ==
  \/ \E p \in Procs, ts \in Times : BeginCreate(p, ts)
  \/ \E p \in Procs, cmd \in {"done", "reopen"}, id \in ArgIds, ts \in Times :
        BeginStatus(p, cmd, id, ts)
  \/ \E p \in Procs : Commit(p) /\ Fits(MaxConc)
  \/ cmd_ready

ConcSpec == ConcInit /\ [][ConcNext]_vars

\* ------------------------------------------------------------ replay layer

\* The events the loop of compute_state is fed.  A create event is what
\* cmd_create writes (both lists present, status "open"); the lists may name
\* an id twice (create --dep x --dep x).
RefLists == SeqsUpTo(TaskIds, MaxRefs)
CreatePayloads == {a \in RefLists \X RefLists : Len(a[1]) + Len(a[2]) <= MaxRefs}

CreateEvents(ts) ==
  {[id |-> id, ts |-> ts, type |-> EVENT_CREATE, title |-> "t", status |-> "open",
    deps |-> a[1], blocks |-> a[2]] : id \in TaskIds, a \in CreatePayloads}
StatusEvents(ts) ==
  {[id |-> id, ts |-> ts, type |-> EVENT_STATUS, status |-> st] :
     id \in TaskIds, st \in {"open", "done"}}
DepEvents(ts) ==
  {[id |-> id, ts |-> ts, type |-> EVENT_DEP, dep |-> d, action |-> a] :
     id \in TaskIds, d \in TaskIds, a \in {"add", "remove"}}
BlockEvents(ts) ==
  {[id |-> id, ts |-> ts, type |-> EVENT_BLOCK, blocks |-> b, action |-> a] :
     id \in TaskIds, b \in TaskIds, a \in {"add", "remove"}}
UpdateEvents(ts) ==
  {[id |-> id, ts |-> ts, type |-> EVENT_UPDATE, title |-> "u"] : id \in TaskIds}

\* One iteration of the loop of compute_state on the next event of the list.
\* The list arrives sorted by ts (load_all_events); here every event is one
\* second later than the one before.
Iterate(event) ==
  /\ rpc = "loop"
  /\ Len(evs) < MaxEvents
  /\ LET S == ApplyEvent([t |-> tasks, o |-> order, e |-> Append(evs, event)], Len(evs) + 1)
     IN  /\ evs' = S.e
         /\ tasks' = S.t
         /\ order' = S.o
  /\ input' = Append(input, event)
  /\ UNCHANGED <<rpc, res1, res2, pend>>
  /\ UNCHANGED cmdVars

Known(event) == event.id \in DOMAIN tasks

ReplayCreate == \E event \in CreateEvents(Len(evs) + 1) : Iterate(event)
ReplayStatus == \E event \in StatusEvents(Len(evs) + 1) : Known(event) /\ Iterate(event)
ReplayDep == \E event \in DepEvents(Len(evs) + 1) : Known(event) /\ Iterate(event)
ReplayBlock == \E event \in BlockEvents(Len(evs) + 1) : Known(event) /\ Iterate(event)
ReplayUpdate == \E event \in UpdateEvents(Len(evs) + 1) : Known(event) /\ Iterate(event)
ReplayUnknown ==
  \E event \in StatusEvents(Len(evs) + 1) \cup DepEvents(Len(evs) + 1)
               \cup BlockEvents(Len(evs) + 1) \cup UpdateEvents(Len(evs) + 1) :
     ~Known(event) /\ Iterate(event)

\* The first call returns (res1 is the map as returned) and compute_state is
\* called again on the same list object (res2 is what that call returns).
CallAgain ==
  /\ rpc = "loop"
  /\ LET S == ReplayFrom(EmptyReplay(evs), 1)
     IN  /\ res1' = Deref(tasks, evs)
         /\ res2' = Deref(S.t, S.e)
         /\ evs' = S.e
         /\ tasks' = S.t
         /\ order' = S.o
  /\ rpc' = "again"
  /\ UNCHANGED <<input, pend>>
  /\ UNCHANGED cmdVars

ReplayInit ==
  /\ initialized = TRUE
  /\ files = [d \in Days |-> <<>>]
  /\ now = 1
  /\ out = NoOutput
  /\ input = <<>>
  /\ evs = <<>>
  /\ tasks = <<>>
  /\ order = <<>>
  /\ rpc = "loop"
  /\ res1 = <<>>
  /\ res2 = <<>>
  /\ pend = <<>>

ReplayNext ==
  \/ ReplayCreate
  \/ ReplayStatus
  \/ ReplayDep
  \/ ReplayBlock
  \/ ReplayUpdate
  \/ ReplayUnknown
  \/ CallAgain

ReplaySpec == ReplayInit /\ [][ReplayNext]_vars

\* -------------------------------------------------------------- load layer

\* A log as load_all_events may find it: lines the commands wrote, in any
\* arrangement over the partition files (a merge, a copy), between lines that
\* are no event records (a blank line, a record cut short, other JSON).
LoadTimes == 1 .. MaxLines
TextLines == {[raw |-> ""], [raw |-> "{partial"], [raw |-> "42"]}
EventLines ==
  UNION {{[id |-> 1, ts |-> ts, type |-> EVENT_CREATE, title |-> "t", status |-> "open",
           deps |-> <<>>, blocks |-> <<>>],
          [id |-> 1, ts |-> ts, type |-> EVENT_STATUS, status |-> "done"],
          [id |-> 1, ts |-> ts, type |-> EVENT_UPDATE, title |-> "u"]} : ts \in LoadTimes}
LogLines == EventLines \cup TextLines

\* the ways to cut n lines into the partition files, and to order them
Cuts(n) ==
  {c \in [0 .. Cardinality(Days) -> 0 .. n] :
     c[0] = 0 /\ c[Cardinality(Days)] = n /\ \A d \in Days : c[d - 1] <= c[d]}
Split(lines, c) == [d \in Days |-> SubSeq(lines, c[d - 1] + 1, c[d])]
Perms(n) == {q \in [1 .. n -> 1 .. n] : \A i, j \in 1 .. n : q[i] = q[j] => i = j}
Arrangements(lines) ==
  {Split([i \in 1 .. Len(lines) |-> lines[q[i]]], c) :
     q \in Perms(Len(lines)), c \in Cuts(Len(lines))}

\* A command loads the log and replays it (the first lines of every cmd_*
\* but init and create); an exception the load does not catch ends the
\* command with a traceback.
LoadLog ==
  /\ out' = IF SortRaises(files)
            THEN [cmd |-> "load", args |-> <<>>, error |-> "AttributeError", doc |-> <<>>]
            ELSE [cmd |-> "load", args |-> <<>>, error |-> "",
                  doc |-> [events |-> load_all_events(files),
                           tasks |-> compute_state(load_all_events(files)).tasks]]
  /\ UNCHANGED <<initialized, files, now>>
  /\ UNCHANGED replayVars

\* The same lines come to lie in another arrangement.
Rearrange ==
  /\ \E f \in Arrangements(AllLines(files)) : f # files /\ files' = f
  /\ out' = NoOutput
  /\ UNCHANGED <<initialized, now>>
  /\ UNCHANGED replayVars

LoadInit ==
  /\ initialized = TRUE
  /\ files \in UNION {{Split(l, c) : c \in Cuts(Len(l))} : l \in SeqsUpTo(LogLines, MaxLines)}
  /\ now = 1
  /\ out = NoOutput
  /\ ReplayIdle

LoadNext ==
  \/ LoadLog
  \/ Rearrange

LoadSpec == LoadInit /\ [][LoadNext]_vars

\* ================================================================ claims

\* The tasks of the current files and the ready listing cmd_ready prints.
Tasks == Loaded.tasks
ReadyIds == {get_ready_tasks(Loaded)[i].id : i \in 1 .. Len(get_ready_tasks(Loaded))}

\* The same two, of the files f (the files after a step are files').
TasksAt(f) == compute_state(load_all_events(f)).tasks
ReadyAt(f) ==
  LET r == get_ready_tasks(compute_state(load_all_events(f)))
  IN  {r[i].id : i \in 1 .. Len(r)}

\* The last command was ready and it succeeded: out.doc is the listing of
\* the current files (ready appends nothing).
ReadyShown == out.cmd = "ready" /\ out.error = ""
ShownIds == {out.doc.tasks[i].id : i \in 1 .. Len(out.doc.tasks)}

\* C1: get_ready_tasks returns a task t exactly when t is open, every id in
\* t.deps is an existing done task, and no OTHER task that is not done has
\* t.id in its blocks (a task's own blocks list is not counted against it).
C1_ReadyIffNoOtherBlocker ==
  initialized =>
    \A id \in DOMAIN Tasks :
       (id \in ReadyIds) <=>
         /\ Tasks[id].status = "open"
         /\ \A i \in 1 .. Len(Tasks[id].deps) :
               Tasks[id].deps[i] \in DOMAIN Tasks /\ Tasks[Tasks[id].deps[i]].status = "done"
         /\ ~\E k \in (DOMAIN Tasks) \ {id} :
               Has(Tasks[k].blocks, id) /\ Tasks[k].status # "done"

\* A task x is named in nobody's blocks list.
NotBlockTargeted(x) == \A k \in DOMAIN Tasks : ~Has(Tasks[k].blocks, x)

\* The status the last done/reopen command on x set (a new task is open):
\* read off the files in append order.
RECURSIVE LastStatusIn(_, _)
LastStatusIn(lines, x) ==
  IF lines = <<>> THEN "open"
  ELSE LET e == lines[Len(lines)]
       IN  IF e.type \in {EVENT_STATUS, EVENT_CREATE} /\ e.id = x THEN e.status
           ELSE LastStatusIn(SubSeq(lines, 1, Len(lines) - 1), x)

\* the files hold exactly these event kinds on these ids, in this order
LogIs(kinds) ==
  /\ Len(AllLines(files)) = Len(kinds)
  /\ \A i \in 1 .. Len(kinds) :
        AllLines(files)[i].type = kinds[i][1] /\ AllLines(files)[i].id = kinds[i][2]

\* C2: dependency gating.  For X without deps and not block-targeted, and Y
\* open with deps = [X] and not block-targeted, the ready listing contains Y
\* exactly when the last status command on X was done, and X exactly when X
\* is open; create X, create Y --dep X, done X, reopen X lists X, X, Y, X.
C2_DependencyGating ==
  ReadyShown =>
    /\ \A x \in DOMAIN Tasks, y \in DOMAIN Tasks :
          ( /\ Tasks[x].deps = <<>> /\ NotBlockTargeted(x)
            /\ Tasks[y].status = "open" /\ Tasks[y].deps = <<x>> /\ NotBlockTargeted(y) )
          => /\ (y \in ShownIds) <=> (LastStatusIn(AllLines(files), x) = "done")
             /\ (x \in ShownIds) <=> (Tasks[x].status = "open")
    /\ ( /\ LogIs(<<<<EVENT_CREATE, 1>>>>) /\ AllLines(files)[1].blocks = <<>>
         /\ AllLines(files)[1].deps = <<>> ) => ShownIds = {1}
    /\ \A n \in 2 .. 4 :
          ( /\ LogIs(SubSeq(<<<<EVENT_CREATE, 1>>, <<EVENT_CREATE, 2>>,
                              <<EVENT_STATUS, 1>>, <<EVENT_STATUS, 1>>>>, 1, n))
            /\ AllLines(files)[1].deps = <<>> /\ AllLines(files)[1].blocks = <<>>
            /\ AllLines(files)[2].deps = <<1>> /\ AllLines(files)[2].blocks = <<>>
            /\ n >= 3 => AllLines(files)[3].status = "done"
            /\ n >= 4 => AllLines(files)[4].status = "open" )
          => ShownIds = (IF n = 3 THEN {2} ELSE {1})

\* The scenario of C2 has run to its end: X was reopened and ready lists X.
C2_Witness ==
  /\ ReadyShown
  /\ LogIs(<<<<EVENT_CREATE, 1>>, <<EVENT_CREATE, 2>>, <<EVENT_STATUS, 1>>, <<EVENT_STATUS, 1>>>>)
  /\ AllLines(files)[2].deps = <<1>>
  /\ AllLines(files)[3].status = "done"
  /\ AllLines(files)[4].status = "open"
  /\ ShownIds = {1}

\* The files grew by exactly one line at the end of one file; the rest is
\* as it was.
AppendedOne ==
  \E d \in Days :
     /\ Len(files'[d]) = Len(files[d]) + 1
     /\ SubSeq(files'[d], 1, Len(files[d])) = files[d]
     /\ \A o \in Days \ {d} : files'[o] = files[o]

\* the line a step appended (when AppendedOne holds)
NewLine ==
  LET d == CHOOSE x \in Days : Len(files'[x]) = Len(files[x]) + 1
  IN  files'[d][Len(files'[d])]

\* c is open, its deps are satisfied and no task but a that is not done
\* names c in its blocks.
FreeButFor(ts, a, c) ==
  /\ c \in DOMAIN ts
  /\ ts[c].status = "open"
  /\ \A i \in 1 .. Len(ts[c].deps) :
        ts[c].deps[i] \in DOMAIN ts /\ ts[ts[c].deps[i]].status = "done"
  /\ ~\E k \in (DOMAIN ts) \ {a} : Has(ts[k].blocks, c) /\ ts[k].status # "done"

\* C3, first half: with C in A.blocks and C otherwise free, C is ready
\* exactly while A is done.
Inversion(ts, ready) ==
  \A a \in DOMAIN ts, c \in DOMAIN ts :
     (Has(ts[a].blocks, c) /\ FreeButFor(ts, a, c))
     => ((c \in ready) <=> (ts[a].status = "done"))

\* C3: blocking inversion.  If A has C in its blocks and C is open, has all
\* deps satisfied and is named in no other non-done task's blocks, then C is
\* not ready while A is not done and ready while A is done; and a block
\* remove event for (A, C) also makes C ready.
C3_BlockingInversion ==
  [][ /\ Inversion(TasksAt(files'), ReadyAt(files'))
      /\ \A a \in DOMAIN Tasks, c \in DOMAIN Tasks :
            ( /\ AppendedOne
              /\ NewLine.type = EVENT_BLOCK /\ NewLine.action = "remove"
              /\ NewLine.id = a /\ NewLine.blocks = c
              /\ FreeButFor(TasksAt(files'), a, c) )
            => (c \in ReadyAt(files')) ]_vars

\* t has in its deps an id d there is no task for.
Dangling(ts, t, d) == t \in DOMAIN ts /\ Has(ts[t].deps, d) /\ d \notin DOMAIN ts

\* C4: fail-closed permanence.  Once a task T has in its deps an id D for
\* which no task exists, T is absent from the ready listing, and stays so
\* after every command that does not create a task with id D: no done,
\* reopen, dep, block or update command makes T ready.
C4_FailClosedForever ==
  [][ LET before == Tasks
          after == TasksAt(files')
      IN  \A t \in DOMAIN before, d \in AnyId \ DOMAIN before :
             Has(before[t].deps, d) =>
                /\ t \notin ReadyIds
                /\ d \notin DOMAIN after
                   => (Dangling(after, t, d) /\ t \notin ReadyAt(files')) ]_vars

\* A task with a dangling dep is open, a dep remove on the dangling id was
\* refused, and later commands were appended after its create.
C4_Witness ==
  /\ Dangling(Tasks, 1, NoSuchId)
  /\ Tasks[1].status = "open"
  /\ Len(AllLines(files)) >= 3
  /\ \E i \in 2 .. Len(AllLines(files)) : AllLines(files)[i].type = EVENT_STATUS
  /\ out.cmd = "dep" /\ out.error = "not_found"
  /\ out.args.on = NoSuchId /\ out.args.remove

WriteCmds == {"create", "done", "reopen", "dep", "block", "update"}
ReadCmds == {"list", "show", "ready", "graph", "prime"}

\* A step that ran one of the commands of C9 (the clock stands still while a
\* command runs; init is not one of them).
CommandStep == now' = now /\ out'.cmd \in WriteCmds \cup ReadCmds

\* the ids of a sequence
Range(s) == {s[i] : i \in 1 .. Len(s)}

\* the task ids a command line refers to
Refs(o) ==
  CASE o.cmd \in {"done", "reopen", "show", "update"} -> {o.args.id}
    [] o.cmd = "dep" -> {o.args.id, o.args.on}
    [] o.cmd = "block" -> {o.args.id, o.args.blocks}
    [] o.cmd = "create" -> Range(o.args.dep) \cup Range(o.args.blocks)
    [] OTHER -> {}

\* C9: all-or-nothing write commands.  Every create, done, reopen, dep, block
\* or update either succeeds having appended exactly one event, or ends in
\* not_initialized, not_found or no_changes having appended none; the checks
\* are made against the state replayed from the files before the append; and
\* list, show, ready, graph and prime never append.
C9_AllOrNothing ==
  [][ CommandStep =>
        /\ out'.cmd \in WriteCmds =>
              \/ out'.error = "" /\ AppendedOne /\ NewLine.ts = now
              \/ out'.error \in {"not_initialized", "not_found", "no_changes"} /\ files' = files
        /\ out'.cmd \in ReadCmds => files' = files
        /\ (out'.error = "not_initialized") <=> ~initialized
        /\ (initialized /\ out'.cmd # "create") =>
              ((out'.error = "not_found") <=> ~(Refs(out') \subseteq DOMAIN Tasks))
        /\ (initialized /\ out'.cmd = "update" /\ out'.args.id \in DOMAIN Tasks) =>
              ((out'.error = "no_changes") <=>
                 (out'.args.title = "" /\ out'.args.notes = "" /\ out'.args.label = <<>>))
        /\ out'.error = "no_changes" => out'.cmd = "update" ]_vars

\* An update without changes was refused on a known task, after a write
\* command had appended an event.
C9_Witness ==
  /\ out.cmd = "update" /\ out.error = "no_changes"
  /\ out.args.id \in DOMAIN Tasks
  /\ Len(AllLines(files)) = 2

\* C10: not_found validation.  Any command that refers to a task id, a
\* dependency id or a block-target id absent from the replayed state fails
\* with not_found and appends no event: the subject id of done, reopen, show,
\* update, dep and block, the --on id of dep, the --blocks id of block, and
\* the --dep / --blocks ids of create.
C10_NotFoundValidation ==
  [][ (CommandStep /\ initialized /\ ~(Refs(out') \subseteq DOMAIN Tasks))
      => (out'.error = "not_found" /\ files' = files) ]_vars

\* ------------------------------------------------------- replay layer claims

\* The task map compute_state is building, as a reader sees it now.
View == Deref(tasks, evs)
ViewNext == Deref(tasks', evs')

\* One iteration of the loop ran; the event it took is the last of input'.
IterStep == rpc = "loop" /\ rpc' = "loop" /\ Len(input') = Len(input) + 1
Taken == input'[Len(input')]

\* C5: determinism of replay.  compute_state applied twice to the same event
\* list, one call after the other, yields two task maps that are identical
\* field for field, deps and blocks included.
C5_SameListSameMap == rpc = "again" => res1 = res2

\* s without its i-th element
DropAt(s, i) == SubSeq(s, 1, i - 1) \o SubSeq(s, i + 1, Len(s))

\* The i-th event of the list handed in refers to an id that is not in the
\* task map at the point it is replayed.
Dropped(inp, i) ==
  /\ inp[i].type # EVENT_CREATE
  /\ inp[i].id \notin DOMAIN ReplayFrom(EmptyReplay(SubSeq(inp, 1, i - 1)), 1).t

\* replaying the list gives what replaying it without a dropped event gives
AsIfAbsent(inp) ==
  \A i \in 1 .. Len(inp) :
     Dropped(inp, i) => compute_state(DropAt(inp, i)) = compute_state(inp)

\* C6: a status, dep, block or update event whose id is not in the task map
\* when it is replayed is inert: the map is left as it is (no task made, no
\* task touched, no list of an earlier event changed), the loop goes on, and
\* a create for that id replayed later gives the task it would give had the
\* dropped event never been in the log.
C6_UnknownIdInert ==
  [][ IterStep =>
        /\ (Taken.type # EVENT_CREATE /\ Taken.id \notin DOMAIN tasks) =>
              /\ tasks' = tasks
              /\ order' = order
              /\ evs' = Append(evs, Taken)
        /\ AsIfAbsent(input') ]_vars

\* A done event for an id came before the create of that id: the task is
\* open and was never completed.
C6_Witness ==
  /\ rpc = "loop"
  /\ Len(input) >= 2
  /\ input[1].type = EVENT_STATUS /\ input[1].status = "done" /\ input[1].id = 1
  /\ input[2].type = EVENT_CREATE /\ input[2].id = 1
  /\ 1 \in DOMAIN tasks
  /\ tasks[1].status = "open" /\ tasks[1].completed = NoTs

\* what one add / remove event on a list must leave (old: before, new: after)
SetOpHolds(action, x, old, new) ==
  /\ (action = "add" /\ Has(old, x)) => new = old
  /\ (action = "add" /\ ~Has(old, x)) => new = Append(old, x)
  /\ (action = "remove" /\ ~Has(old, x)) => new = old

\* the task t, its updated timestamp and its two lists aside
Rest(v, t) == [v[t] EXCEPT !.updated = NoTs, !.deps = <<>>, !.blocks = <<>>]

\* C7: idempotent set operations in replay.  For a known task T, a dep add
\* for a D already in T.deps leaves T.deps as it is (so the same add replayed
\* twice leaves what one add leaves), a dep remove for a D not in T.deps
\* leaves T.deps unchanged, and the same holds for block add / remove on
\* T.blocks; only the updated timestamp may differ.
C7_IdempotentSetOps ==
  [][ (IterStep /\ Taken.type \in {EVENT_DEP, EVENT_BLOCK} /\ Taken.id \in DOMAIN tasks) =>
        LET t == Taken.id
        IN  /\ Taken.type = EVENT_DEP =>
                 /\ SetOpHolds(Taken.action, Taken.dep, View[t].deps, ViewNext[t].deps)
                 /\ ViewNext[t].blocks = View[t].blocks
            /\ Taken.type = EVENT_BLOCK =>
                 /\ SetOpHolds(Taken.action, Taken.blocks, View[t].blocks, ViewNext[t].blocks)
                 /\ ViewNext[t].deps = View[t].deps
            /\ Rest(ViewNext, t) = Rest(View, t)
            /\ \A k \in (DOMAIN tasks) \ {t} : ViewNext[k] = View[k] ]_vars

\* The same dep add event was replayed twice on a known task, and the list
\* holds the id once.
C7_Witness ==
  /\ rpc = "loop"
  /\ Len(input) = 3
  /\ input[1].type = EVENT_CREATE /\ input[1].id = 1 /\ input[1].deps = <<>>
  /\ input[2].type = EVENT_DEP /\ input[2].id = 1 /\ input[2].action = "add"
  /\ input[3].type = EVENT_DEP /\ input[3].id = 1 /\ input[3].action = "add"
  /\ input[2].dep = 2 /\ input[3].dep = 2
  /\ View[1].deps = <<2>>

\* C8: reopen preserves history.  After a status "done" event with timestamp
\* t on a known task, any status "open", dep, block or update event (no
\* further done, no further create of it) leaves the task's completed field
\* at t, while its status is that of the last status event.
C8_ReopenKeepsCompleted ==
  [][ (IterStep /\ Taken.type # EVENT_CREATE /\ Taken.id \in DOMAIN tasks) =>
        LET t == Taken.id
            isDone == Taken.type = EVENT_STATUS /\ Taken.status = "done"
        IN  /\ isDone => tasks'[t].completed = Taken.ts
            /\ ~isDone => tasks'[t].completed = tasks[t].completed
            /\ Taken.type = EVENT_STATUS => tasks'[t].status = Taken.status
            /\ Taken.type # EVENT_STATUS => tasks'[t].status = tasks[t].status
            /\ \A k \in (DOMAIN tasks) \ {t} :
                  /\ tasks'[k].completed = tasks[k].completed
                  /\ tasks'[k].status = tasks[k].status ]_vars

\* A task was done at second 2 and reopened at second 3: it is open and its
\* completed timestamp is still 2.
C8_Witness ==
  /\ rpc = "loop"
  /\ Len(input) = 3
  /\ input[1].type = EVENT_CREATE /\ input[1].id = 1
  /\ input[2].type = EVENT_STATUS /\ input[2].id = 1 /\ input[2].status = "done"
  /\ input[3].type = EVENT_STATUS /\ input[3].id = 1 /\ input[3].status = "open"
  /\ tasks[1].status = "open" /\ tasks[1].completed = 2

\* ---------------------------------------------------- command layer claims

\* C14: append-only log.  Across any sequence of commands (sync aside) the
\* log after a command is the log before it, record for record and in the
\* same order, with at most one new record after it; no command rewrites,
\* reorders or removes a record.
C14_AppendOnly ==
  [][ \/ files' = files
      \/ /\ AppendedOne
         /\ AllLines(files') = Append(AllLines(files), NewLine) ]_vars

\* Two write commands ran on two days: each file holds one record, the
\* older one in the older file.
C14_Witness ==
  /\ Len(files[1]) = 1 /\ Len(files[2]) = 1
  /\ files[1][1].type = EVENT_CREATE
  /\ files[2][1].ts > files[1][1].ts
  /\ out.cmd \in WriteCmds /\ out.error = ""

\* The ready predicate: t is open, each of its deps is an existing done
\* task, and no other task that is not done names t in its blocks.
ReadyPredicate(ts, id) ==
  /\ ts[id].status = "open"
  /\ \A i \in 1 .. Len(ts[id].deps) :
        ts[id].deps[i] \in DOMAIN ts /\ ts[ts[id].deps[i]].status = "done"
  /\ ~\E k \in (DOMAIN ts) \ {id} : Has(ts[k].blocks, id) /\ ts[k].status # "done"

\* C15: ready listing.  The list the ready command emits holds exactly the
\* tasks that satisfy the ready predicate, each once, ordered by created
\* ascending, and its count is the number of listed tasks.
C15_ReadyListing ==
  ReadyShown =>
    LET l == out.doc.tasks
    IN  /\ ShownIds = {id \in DOMAIN Tasks : ReadyPredicate(Tasks, id)}
        /\ \A i \in 1 .. Len(l), j \in 1 .. Len(l) : l[i].id = l[j].id => i = j
        /\ \A i \in 1 .. Len(l), j \in 1 .. Len(l) : i < j => l[i].created <= l[j].created
        /\ \A i \in 1 .. Len(l) : l[i] = Tasks[l[i].id]
        /\ out.doc.count = Len(l)

\* no id twice in s
NoDup(s) == \A i \in 1 .. Len(s), j \in 1 .. Len(s) : s[i] = s[j] => i = j

\* C16: set semantics of deps and blocks in every state the commands reach.
\* No task's deps or blocks holds an id twice, and right after a dep (block)
\* remove event for D on a known task T, D is not in T.deps (T.blocks).
C16_SetSemantics ==
  [][ LET after == TasksAt(files')
      IN  /\ \A t \in DOMAIN after : NoDup(after[t].deps) /\ NoDup(after[t].blocks)
          /\ (AppendedOne /\ NewLine.type = EVENT_DEP /\ NewLine.action = "remove")
                => ~Has(after[NewLine.id].deps, NewLine.dep)
          /\ (AppendedOne /\ NewLine.type = EVENT_BLOCK /\ NewLine.action = "remove")
                => ~Has(after[NewLine.id].blocks, NewLine.blocks) ]_vars

\* The last command was prime and it succeeded: out.doc is the summary of
\* the current files (prime appends nothing).
PrimeShown == out.cmd = "prime" /\ out.error = ""

\* the deps of task id whose target is not a done task
Unmet(ts, id) ==
  {d \in Range(ts[id].deps) : ~(d \in DOMAIN ts /\ ts[d].status = "done")}

\* C17: blocked report of prime.  Every entry is an open task with at least
\* one dep whose target is not done, its waiting_on is exactly the subset of
\* the task's deps whose target is not a done task (deps on ids there is no
\* task for included), an open task with no such dep is not reported, and
\* the report holds at most five entries.
C17_BlockedReport ==
  PrimeShown =>
    LET report == out.doc.blocked_tasks
    IN  /\ Len(report) <= 5
        /\ \A i \in 1 .. Len(report) :
              /\ report[i].id \in DOMAIN Tasks
              /\ Tasks[report[i].id].status = "open"
              /\ Unmet(Tasks, report[i].id) # {}
              /\ Range(report[i].waiting_on) = Unmet(Tasks, report[i].id)

\* ------------------------------------------------------- load layer claims

\* the last step loaded the log the files hold, and the load returned
Loaded_ok == out.cmd = "load" /\ out.error = ""

\* the elements of s with timestamp k, in the order of s
WithTs(s, k) ==
  LET At(e) == e.ts = k
  IN  SelectSeq(s, At)

\* C11: load_all_events returns the parsed events sorted by ts ascending,
\* and events of equal ts keep their log order: file name order first, line
\* order within a file next.
C11_SortedStable ==
  Loaded_ok =>
    LET r == out.doc.events
    IN  /\ Len(r) = Len(Parsed(files))
        /\ \A i \in 1 .. Len(r), j \in 1 .. Len(r) : i < j => r[i].ts <= r[j].ts
        /\ \A k \in LoadTimes : WithTs(r, k) = WithTs(Parsed(files), k)

\* Three events were loaded, the sort moved one of them, and two different
\* events of one timestamp lie in two files.
C11_Witness ==
  /\ Loaded_ok
  /\ Len(out.doc.events) = 3
  /\ out.doc.events # Parsed(files)
  /\ files[1] # <<>>
  /\ \E a \in 1 .. Len(files[1]), b \in 1 .. Len(files[2]) :
        /\ IsMapping(files[1][a]) /\ IsMapping(files[2][b])
        /\ files[1][a].ts = files[2][b].ts
        /\ files[1][a] # files[2][b]

\* how often x is an element of s
Count(s, x) == Cardinality({i \in 1 .. Len(s) : s[i] = x})

\* C12: tolerant load.  Whatever the lines of the log are, the load does
\* not fail: every line that is no well-formed event record is skipped,
\* every well-formed event record of every file is returned, and the
\* command that loads the log completes normally.
C12_TolerantLoad ==
  out.cmd = "load" =>
    /\ out.error = ""
    /\ \A e \in LogLines :
          Count(out.doc.events, e) = IF e \in EventLines THEN Count(AllLines(files), e) ELSE 0

\* the lines of f are event records of pairwise distinct timestamps
DistinctTs(f) ==
  LET l == AllLines(f)
  IN  /\ \A i \in 1 .. Len(l) : IsMapping(l[i])
      /\ \A i \in 1 .. Len(l), j \in 1 .. Len(l) : l[i].ts = l[j].ts => i = j

\* C13: order-insensitivity under distinct timestamps.  For event records of
\* pairwise distinct ts, load_all_events followed by compute_state gives the
\* same task map for every arrangement of the records in the log, within
\* and across files.
C13_OrderInsensitive ==
  [][ ( /\ files' # files
        /\ \A e \in LogLines : Count(AllLines(files'), e) = Count(AllLines(files), e)
        /\ DistinctTs(files) )
      => TasksAt(files') = TasksAt(files) ]_vars

\* A done event lies in the first file, the create of its task (one second
\* older) in the second; loaded and replayed, the task is done.
C13_Witness ==
  /\ Loaded_ok
  /\ DistinctTs(files)
  /\ Len(files[1]) = 1 /\ files[1][1].type = EVENT_STATUS /\ files[1][1].ts = 2
  /\ Len(files[2]) = 1 /\ files[2][1].type = EVENT_CREATE /\ files[2][1].ts = 1
  /\ out.doc.tasks[1].status = "done"

\* ------------------------------------------------ replay layer claims (2)

\* C18: a duplicate create overwrites wholesale.  When a create event is
\* replayed for an id already in the task map, the task carries that
\* create's title, status, deps, blocks, labels and notes only, has created
\* = updated = the event's ts, keeps nothing of earlier events for the id
\* (no completed timestamp, no dep / block / update change), and every other
\* task is unchanged.
C18_DuplicateCreateOverwrites ==
  [][ (IterStep /\ Taken.type = EVENT_CREATE /\ Taken.id \in DOMAIN tasks) =>
        /\ DOMAIN tasks' = DOMAIN tasks
        /\ ViewNext[Taken.id] =
              [id |-> Taken.id, title |-> Taken.title, status |-> Taken.status,
               deps |-> Taken.deps, blocks |-> Taken.blocks,
               created |-> Taken.ts, updated |-> Taken.ts, completed |-> NoTs,
               labels |-> <<>>, notes |-> ""]
        /\ \A k \in (DOMAIN tasks) \ {Taken.id} : ViewNext[k] = View[k] ]_vars

\* A task was created, done, and created again: it is open, never
\* completed, and as old as its second create.
C18_Witness ==
  /\ rpc = "loop"
  /\ Len(input) = 3
  /\ input[1].type = EVENT_CREATE /\ input[1].id = 1
  /\ input[2].type = EVENT_STATUS /\ input[2].id = 1 /\ input[2].status = "done"
  /\ input[3].type = EVENT_CREATE /\ input[3].id = 1
  /\ tasks[1].status = "open" /\ tasks[1].completed = NoTs /\ tasks[1].created = 3

\* C19: purity of replay.  compute_state leaves its input unchanged: during
\* and after a replay every event of the list has the value it had when the
\* list was handed in, the deps and blocks lists of the create events
\* included, whatever dep / block events follow.
C19_InputUnchanged == rpc = "loop" => evs = input

\* C20: first-completion timestamp.  completed is the ts of the first status
\* event that made the task done since its create: a done event on a task
\* that has a completed timestamp leaves it unchanged.
C20_FirstCompletion ==
  [][ ( /\ IterStep
        /\ Taken.type = EVENT_STATUS /\ Taken.status = "done"
        /\ Taken.id \in DOMAIN tasks )
      => tasks'[Taken.id].completed =
           IF tasks[Taken.id].completed = NoTs THEN Taken.ts ELSE tasks[Taken.id].completed ]_vars

\* ------------------------------------------------ concurrent writer claims

\* process p appended the event it had validated
Committed(p) == pend[p] # NoPending /\ pend'[p] = NoPending /\ AppendedOne

\* C21: task existence is monotone under concurrent writers.  With the
\* load-validate and append steps of several processes interleaved, an id
\* that is a key of the state replayed from the log is a key of the state
\* replayed from every later log; so an existence check that passed at
\* validation holds while the event waits, when it is appended, and after.
C21_ExistenceMonotone ==
  [][ LET after == TasksAt(files')
      IN  /\ DOMAIN Tasks \subseteq DOMAIN after
          /\ \A p \in Procs :
                /\ (pend'[p] # NoPending /\ pend'[p].event.type # EVENT_CREATE)
                      => pend'[p].event.id \in DOMAIN after
                /\ (Committed(p) /\ pend[p].event.type # EVENT_CREATE)
                      => pend[p].event.id \in DOMAIN Tasks \cap DOMAIN after ]_vars

\* A process validated a done command on a task and has yet to append it,
\* and another process appended an event since.
C21_Witness ==
  /\ pend[1] # NoPending
  /\ pend[1].event.type = EVENT_STATUS
  /\ pend[1].seen < Len(AllLines(files))
  /\ pend[1].event.id \in DOMAIN Tasks

\* C22: read-your-writes for status commands.  After a done (reopen) command
\* on T succeeded, the state replayed by the next read shows T done (open),
\* whatever timestamp the writer stamped on the event, one earlier than
\* timestamps already in the log for T included.
C22_ReadYourWrites ==
  [][ \A p \in Procs :
        (Committed(p) /\ pend[p].event.type = EVENT_STATUS)
        => TasksAt(files')[pend[p].event.id].status = pend[p].event.status ]_vars

====
